---- MODULE Spec2Model ----
(***************************************************************************)
(* A model of the OSINT task orchestration driver, agents/mother_agent.py: *)
(* Config.load, target loading, the retry loop execute_agent, the task     *)
(* runners run_username / run_spiderfoot, dispatch_task, the sequential    *)
(* and the ThreadPoolExecutor dispatch of main, the summary step and the   *)
(* final tally.  The child processes are modelled by what their exit code  *)
(* is made of (run_cmd and the exit paths of agents/spiderfoot_agent.py).  *)
(*                                                                         *)
(* Text is modelled as a sequence of tokens (a token is one character or   *)
(* one word), so that split, strip, lower and the f-strings are computed   *)
(* and not assumed.  An Optional is None (<<>>) or Some(x) (<<x>>).        *)
(***************************************************************************)
EXTENDS Integers, Sequences, FiniteSets, TLC

\* ------------------------------------------------------------------ bounds
\* The longest targets file / interactive entry, in lines.
MaxLines == 2
\* The largest MOTHER_MAX_RETRIES the environment sets (0..MaxRetries).
MaxRetries == 2
\* The wall clock's values are 0..MaxClock.
MaxClock == 2
\* The lines typed for classification start with up to MaxRawLen free
\* characters.
MaxRawLen == 4

\* ------------------------------------------------------- program constants
DefaultMaxRetries == 3
DefaultWorkers == 4
TimeoutExit == 124
NotFoundExit == 127

None == <<>>
Some(x) == <<x>>

\* --------------------------------------------------------------- text
IsSpace(c) == c \in {" ", "\t"}

RECURSIVE LStrip(_, _)
LStrip(s, drop) ==
  IF s # <<>> /\ Head(s) \in drop THEN LStrip(Tail(s), drop) ELSE s

RECURSIVE RStrip(_, _)
RStrip(s, drop) ==
  IF s # <<>> /\ s[Len(s)] \in drop THEN RStrip(SubSeq(s, 1, Len(s) - 1), drop)
  ELSE s

\* str.strip(): leading and trailing whitespace removed.
Strip(s) == RStrip(LStrip(s, {" ", "\t"}), {" ", "\t"})

\* str.strip(","): leading and trailing commas removed.
StripComma(s) == RStrip(LStrip(s, {","}), {","})

Contains(s, c) == \E i \in 1..Len(s) : s[i] = c

\* The index of the first occurrence of c in s (c occurs in s).
IndexOf(s, c) == CHOOSE i \in 1..Len(s) : s[i] = c /\ \A j \in 1..(i - 1) : s[j] # c

\* [p.strip() for p in s.split(":", 1)] of a text that holds a colon.
SplitColon(s) ==
  LET i == IndexOf(s, ":")
  IN  <<Strip(SubSeq(s, 1, i - 1)), Strip(SubSeq(s, i + 1, Len(s)))>>

\* str.lower(), token by token.
LowerTok(c) ==
  CASE c = "Domain" -> "domain"
    [] c = "USERNAME" -> "username"
    [] c = "A" -> "a"
    [] OTHER -> c

Lower(s) == [i \in 1..Len(s) |-> LowerTok(s[i])]

\* str(int) of the exit codes a child process of this program ends with.
IntToStr(n) ==
  CASE n = 0 -> "0"
    [] n = 1 -> "1"
    [] n = 2 -> "2"
    [] n = TimeoutExit -> "124"
    [] n = NotFoundExit -> "127"
    [] OTHER -> "?"

\* int(s): Some(n), or None where Python raises ValueError.
ParseInt(s) ==
  CASE s = "0" -> Some(0)
    [] s = "1" -> Some(1)
    [] s = "2" -> Some(2)
    [] s = "3" -> Some(3)
    [] s = "4" -> Some(4)
    [] s = "-1" -> Some(-1)
    [] OTHER -> None

\* ------------------------------------------------------------ Config.load
\* Config.load(argv): the --parallel / -p flag, and --workers N, which keeps
\* the default when N is missing (IndexError) or no integer (ValueError).
ConfigLoad(argv, envRetries) ==
  LET parallel == Contains(argv, "--parallel") \/ Contains(argv, "-p")
      workers ==
        IF Contains(argv, "--workers")
        THEN LET idx == IndexOf(argv, "--workers")
             IN  IF idx + 1 <= Len(argv) /\ ParseInt(argv[idx + 1]) # None
                 THEN ParseInt(argv[idx + 1])[1]
                 ELSE DefaultWorkers
        ELSE DefaultWorkers
  IN  [ max_retries |-> IF envRetries = None THEN DefaultMaxRetries
                        ELSE envRetries[1],
        parallel |-> parallel,
        worker_count |-> workers ]

\* ------------------------------------------------------------- guess_kind
IsDigit(c) == c \in {"0", "1", "2", "3", "4", "5", "6", "7", "8", "9"}

\* re.fullmatch(r".+@.+\..+", v)
MatchesEmail(v) ==
  \E i \in 2..Len(v) : \E j \in (i + 2)..(Len(v) - 1) : v[i] = "@" /\ v[j] = "."

\* re.fullmatch(r"\+?\d[\d\s().-]{6,}$", v)
MatchesPhone(v) ==
  LET body == IF v # <<>> /\ Head(v) = "+" THEN Tail(v) ELSE v
  IN  /\ Len(body) >= 7
      /\ IsDigit(body[1])
      /\ \A i \in 2..Len(body) :
           IsDigit(body[i]) \/ IsSpace(body[i]) \/ body[i] \in {"(", ")", ".", "-"}

\* Mutant of guess_kind: the domain rule comes before the phone rule.
guess_kind_domain_first(raw) ==
  LET v == Strip(raw)
  IN  IF MatchesEmail(v) THEN <<"email">>
      ELSE IF Contains(v, ".") /\ ~Contains(v, " ") THEN <<"domain">>
      ELSE IF MatchesPhone(v) THEN <<"phone">>
      ELSE <<"username">>

\* Lines 151-159: guess_kind.
guess_kind(raw) ==
  LET v == Strip(raw)
  IN  IF MatchesEmail(v) THEN <<"email">>
      ELSE IF MatchesPhone(v) THEN <<"phone">>
      ELSE IF Contains(v, ".") /\ ~Contains(v, " ") THEN <<"domain">>
      ELSE <<"username">>

\* ---------------------------------------------------------- target loading
\* One line of gather_targets_interactive after the blank-line test.
PromptItem(raw) ==
  IF Contains(raw, ":")
  THEN <<Lower(SplitColon(raw)[1]), SplitColon(raw)[2]>>
  ELSE <<guess_kind(raw), raw>>

\* gather_targets_interactive: the entered lines up to the first blank one.
RECURSIVE gather_targets_interactive(_)
gather_targets_interactive(lines) ==
  IF lines = <<>> THEN <<>>
  ELSE LET raw == StripComma(Strip(Head(lines)))
       IN  IF raw = <<>> THEN <<>>
           ELSE <<PromptItem(raw)>> \o gather_targets_interactive(Tail(lines))

\* load_targets_from_file: blank lines and lines without a colon are skipped.
RECURSIVE load_targets_from_file(_)
load_targets_from_file(lines) ==
  IF lines = <<>> THEN <<>>
  ELSE LET l == Strip(Head(lines))
           rest == load_targets_from_file(Tail(lines))
       IN  IF l = <<>> \/ ~Contains(l, ":") THEN rest
           ELSE <<<<Lower(SplitColon(l)[1]), SplitColon(l)[2]>>>> \o rest

\* ------------------------------------------------------- child processes
\* Exceptions are records; str(e) is the message.
\* What subprocess.run raises when the child cannot be started.
LaunchFaults == { [type |-> "OSError", msg |-> <<"Argument list too long">>] }
\* The same, and a second fault subprocess.run can raise at a launch.
RetryFaults ==
  LaunchFaults \cup { [type |-> "PermissionError", msg |-> <<"Permission denied">>] }
TimeoutExpired == [type |-> "TimeoutExpired", msg |-> <<"timed out">>]
UnknownFailure == [type |-> "RuntimeError", msg |-> <<"Unknown execution failure">>]
str(e) == e.msg

\* What the tool wrapped by an agent does: it exits with a code, or it runs
\* past run_cmd's timeout.
InnerOutcomes ==
  { [timeout |-> FALSE, code |-> 0], [timeout |-> FALSE, code |-> 1],
    [timeout |-> TRUE, code |-> 0] }

\* run_cmd of the agents: the tool's exit code, 124 on TimeoutExpired.
run_cmd(inner) == IF inner.timeout THEN TimeoutExit ELSE inner.code

\* The exit code of spiderfoot_agent.py: 127 without sf.py, else run_cmd's.
spiderfoot_exit(sfExists, inner) ==
  IF ~sfExists THEN NotFoundExit ELSE run_cmd(inner)

\* The exit code of username_agent.py: run_cmd's code.
username_exit(inner) == run_cmd(inner)

\* The exit code of summary_agent.py: 0, or 1 when build() raises.
summary_exit(ok) == IF ok THEN 0 ELSE 1

\* A child process as subprocess.run sees it: it fails to launch, or it ends
\* with an exit code, late (slow) or not.
Proc(launch, code, slow) == [launch |-> launch, code |-> code, slow |-> slow]

Procs(agent, faults) ==
  { Proc(Some(f), 0, FALSE) : f \in faults }
  \cup
  ( CASE agent = "username" ->
           { Proc(None, username_exit(i), i.timeout) : i \in InnerOutcomes }
      [] agent = "spiderfoot" ->
           { Proc(None, spiderfoot_exit(e, i), e /\ i.timeout) :
               e \in BOOLEAN, i \in InnerOutcomes }
      [] OTHER ->
           { Proc(None, summary_exit(ok), FALSE) : ok \in BOOLEAN } )

\* sh(args, env, timeout): subprocess.run raises the launch fault, raises
\* TimeoutExpired when a timeout is given and the child runs past it, and
\* else returns the CompletedProcess.
sh(proc, timeout) ==
  IF proc.launch # None
  THEN [raised |-> TRUE, exc |-> proc.launch, returncode |-> None]
  ELSE IF timeout # None /\ proc.slow
  THEN [raised |-> TRUE, exc |-> Some(TimeoutExpired), returncode |-> None]
  ELSE [raised |-> FALSE, exc |-> None, returncode |-> Some(proc.code)]

\* ----------------------------------------------------------- execute_agent
\* One activation of execute_agent: where it is (at: call, sleep, returned,
\* raised), the loop variable, last_exc, and what it returned or raised.
Frame(at, attempt, last_exc, cp, exc) ==
  [at |-> at, attempt |-> attempt, last_exc |-> last_exc, cp |-> cp, exc |-> exc]

\* Line 116: the loop is over without a return.
execute_agent_exhausted(fr) ==
  [fr EXCEPT !.at = "raised",
             !.exc = IF fr.last_exc # None THEN fr.last_exc
                     ELSE Some(UnknownFailure)]

\* Lines 96-97: last_exc = None, and the first iteration of range(1, n + 1),
\* if there is one.
execute_agent_enter(max_retries) ==
  IF 1 <= max_retries THEN Frame("call", 1, None, None, None)
  ELSE execute_agent_exhausted(Frame("call", 0, None, None, None))

\* Mutant of Delay: the exponent is off by one.
DelayOffByOne(attempt) == 2 ^ attempt

\* Line 113: delay = 2 ** (attempt - 1).
Delay(attempt) == 2 ^ (attempt - 1)

\* Mutant of ExecTimeout: execute_agent passes a timeout to sh.
ExecTimeoutGiven == Some(600)

\* Line 100: execute_agent passes no timeout to sh.
ExecTimeout == None

\* Mutant of execute_agent_attempt: a non-zero exit code is retried like a
\* raised exception while attempts are left.
execute_agent_attempt_retry_nonzero(fr, out, max_retries) ==
  IF ~out.raised /\ (out.returncode = Some(0) \/ fr.attempt >= max_retries)
  THEN [fr EXCEPT !.at = "returned", !.cp = out.returncode]
  ELSE LET f == [fr EXCEPT !.last_exc = out.exc]
       IN  IF fr.attempt < max_retries THEN [f EXCEPT !.at = "sleep"]
           ELSE execute_agent_exhausted(f)

\* Mutant of execute_agent_attempt: last_exc keeps the first exception.
execute_agent_attempt_keeps_first(fr, out, max_retries) ==
  IF ~out.raised
  THEN [fr EXCEPT !.at = "returned", !.cp = out.returncode]
  ELSE LET f == [fr EXCEPT !.last_exc = IF fr.last_exc # None THEN fr.last_exc
                                        ELSE out.exc]
       IN  IF fr.attempt < max_retries THEN [f EXCEPT !.at = "sleep"]
           ELSE execute_agent_exhausted(f)

\* Lines 98-115: one iteration, given what sh did: return cp, or record the
\* exception and sleep if another attempt follows.
execute_agent_attempt(fr, out, max_retries) ==
  IF ~out.raised
  THEN [fr EXCEPT !.at = "returned", !.cp = out.returncode]
  ELSE LET f == [fr EXCEPT !.last_exc = out.exc]
       IN  IF fr.attempt < max_retries THEN [f EXCEPT !.at = "sleep"]
           ELSE execute_agent_exhausted(f)

\* Mutant of execute_agent_wake: the loop variable is not advanced.
execute_agent_wake_no_increment(fr) == [fr EXCEPT !.at = "call"]

\* time.sleep is over: the next iteration.
execute_agent_wake(fr) == [fr EXCEPT !.at = "call", !.attempt = fr.attempt + 1]

\* What an activation logs when it leaves a call: the launch it made, and
\* the sleep it starts, if any.
CallEvent(script, args, proc, out) ==
  [ev |-> "call", script |-> script, args |-> args, proc |-> proc, out |-> out,
   delay |-> 0]
SleepEvent(d) ==
  [ev |-> "sleep", script |-> "", args |-> <<>>, proc |-> None, out |-> None,
   delay |-> d]
AttemptEvents(fr, new, script, args, proc, out) ==
  <<CallEvent(script, args, Some(proc), Some(out))>>
  \o (IF new.at = "sleep" THEN <<SleepEvent(Delay(fr.attempt))>> ELSE <<>>)

\* ------------------------------------------------------------- TaskResult
TaskResult(target, agent, status, start_time, end_time, returncode, error) ==
  [target |-> target, agent |-> agent, status |-> status,
   start_time |-> start_time, end_time |-> end_time,
   returncode |-> returncode, error |-> error]

\* Lines 119 / 135: the record a runner starts with.
run_username_enter(value, now) ==
  TaskResult(value, "username", "running", Some(now), None, None, None)
run_spiderfoot_enter(kind, value, now) ==
  TaskResult(kind \o <<":">> \o value, "spiderfoot", "running", Some(now), None, None, None)

\* Mutant of run_returned: the exit code is not looked at.
run_returned_ignores_code(t, returncode) ==
  [t EXCEPT !.returncode = Some(returncode), !.status = "completed"]

\* Lines 122-126 / 138-142: execute_agent returned cp.
run_returned(t, returncode) ==
  [t EXCEPT !.returncode = Some(returncode),
            !.status = IF returncode = 0 THEN "completed" ELSE "failed",
            !.error = IF returncode # 0
                      THEN Some(<<"exit ", IntToStr(returncode)>>) ELSE t.error]

\* Mutants of run_raised: the except branch forgets the error text, or
\* forgets the status.
run_raised_no_error(t, e) == [t EXCEPT !.status = "failed"]
run_raised_keeps_running(t, e) == [t EXCEPT !.error = Some(str(e))]

\* Lines 127-130 / 143-146: execute_agent raised e.
run_raised(t, e) == [t EXCEPT !.status = "failed", !.error = Some(str(e))]

\* Mutant of run_finish: t.end_time is left as it is.
run_finish_no_end_time(t, fr, now) ==
  IF fr.at = "returned" THEN run_returned(t, fr.cp[1]) ELSE run_raised(t, fr.exc[1])

\* The runner's record once its execute_agent activation is over: lines
\* 123 / 128 / 139 / 144 set t.end_time = datetime.now() first.
run_finish(t, fr, now) ==
  LET u == [t EXCEPT !.end_time = Some(now)]
  IN  IF fr.at = "returned" THEN run_returned(u, fr.cp[1]) ELSE run_raised(u, fr.exc[1])

\* ---------------------------------------------------------- dispatch_task
SpiderfootKinds == { <<"domain">>, <<"email">>, <<"ip">>, <<"phone">> }

\* Mutant of Route: the last branch is the spiderfoot runner.
RouteElseSpiderfoot(kind) ==
  IF kind = <<"username">> THEN "username" ELSE "spiderfoot"

\* Lines 245-249: the runner a kind is routed to.
Route(kind) ==
  IF kind = <<"username">> THEN "username"
  ELSE IF kind \in SpiderfootKinds THEN "spiderfoot"
  ELSE "unknown"

\* Line 250: the record of a kind no runner takes.
unknown_result(kind, value, now1, now2) ==
  TaskResult(value, "unknown", "failed", Some(now1), Some(now2), None,
             Some(<<"unknown type ">> \o kind))

\* The record dispatch_task starts with.
dispatch_enter(kind, value, now1, now2) ==
  CASE Route(kind) = "username" -> run_username_enter(value, now1)
    [] Route(kind) = "spiderfoot" -> run_spiderfoot_enter(kind, value, now1)
    [] OTHER -> unknown_result(kind, value, now1, now2)

\* Line 265: the record main makes of a future that raised e.
future_raised_result(k, v, e, now1, now2) ==
  TaskResult(k \o <<":">> \o v, "unknown", "failed", Some(now1), Some(now2), None,
             Some(str(e)))

\* ------------------------------------------------------------------ inputs
\* The lines of targets.txt, or the lines typed at the prompt.
InputLines ==
  { <<>>,
    <<"a">>,
    <<"username", ":", " ", "a">>,
    <<"Domain", ":", "a", ".", "a">>,
    <<"pigeon", ":", "a">> }

RECURSIVE SeqsUpTo(_, _)
SeqsUpTo(S, n) ==
  IF n = 0 THEN { <<>> }
  ELSE LET shorter == SeqsUpTo(S, n - 1)
       IN  shorter \cup { Append(q, x) : q \in { r \in shorter : Len(r) = n - 1 }, x \in S }

\* The command lines the driver is started with.
Argvs ==
  { <<"mother_agent.py">>,
    <<"mother_agent.py", "-i">>,
    <<"mother_agent.py", "--workers">>,
    <<"mother_agent.py", "--workers", "x">>,
    <<"mother_agent.py", "--parallel">>,
    <<"mother_agent.py", "-p", "--workers", "1">>,
    <<"mother_agent.py", "-p", "--workers", "2">>,
    <<"mother_agent.py", "--prompt", "-p", "--workers", "0">> }

\* MOTHER_MAX_RETRIES: unset, or an integer.
EnvRetries == { None } \cup { Some(n) : n \in 0..MaxRetries }

\* What a run is started with: sys.argv, MOTHER_MAX_RETRIES,
\* TARGETS_TXT.exists(), and the lines of targets.txt or of the prompt.
Launches ==
  [ argv : Argvs, env : EnvRetries, fileExists : BOOLEAN,
    lines : SeqsUpTo(InputLines, MaxLines) ]

\* ------------------------------------------------------------------- state
VARIABLES
  launch,      \* what main has still to read of what it is started with
  pc,          \* where main is: start, dispatch, pool, aggregate, summarize,
               \* done, crashed
  cfg,         \* Config.load's result
  targets,     \* the (kind, value) pairs, main's tasks list
  tk,          \* per task: its state (queued, running, done, collected), and
               \* while dispatch_task runs its TaskResult, its execute_agent
               \* frame, and the launches and sleeps it made
  results,     \* main's results list
  agg,         \* the execute_agent frame of the summary step
  aggLog,      \* the launches and sleeps of the summary step
  tally,       \* <<success_count, len(results)>> of the final log line
  exitStatus,  \* the driver's exit status, an Optional
  clock,       \* the last value datetime.now() returned
  clockEnd,    \* the value of the wall clock when the run is over: every
               \* datetime.now() returns a value in clock..clockEnd
  osFaults     \* the faults a launch of a child process can end in on the
               \* machine the run is on

vars ==
  <<launch, pc, cfg, targets, tk, results, agg, aggLog, tally, exitStatus,
    clock, clockEnd, osFaults>>

NoFrame == Frame("none", 0, None, None, None)

TaskState(st, t, fr, log) == [st |-> st, t |-> t, fr |-> fr, log |-> log]

Queued == TaskState("queued", None, NoFrame, <<>>)
Collected == TaskState("collected", None, NoFrame, <<>>)

\* The state main starts in, but for what it is started with.
InitMain ==
  /\ pc = "start"
  /\ cfg = ConfigLoad(<<>>, None)
  /\ targets = <<>>
  /\ tk = <<>>
  /\ results = <<>>
  /\ agg = NoFrame
  /\ aggLog = <<>>
  /\ tally = None
  /\ exitStatus = None
  /\ clock = 0

\* Runs so short that every datetime.now() returns the same value.
Init ==
  /\ launch \in { Some(l) : l \in Launches }
  /\ InitMain
  /\ clockEnd = 0
  /\ osFaults = LaunchFaults

\* ------------------------------------------------------------ main: loading
\* Lines 216-225: the prompt is used on --prompt / -i or without targets.txt.
LoadTargets(av, exists, ls) ==
  IF Contains(av, "--prompt") \/ Contains(av, "-i") \/ ~exists
  THEN gather_targets_interactive(ls)
  ELSE load_targets_from_file(ls)

\* Mutant of AfterLoad: no early return.
AfterLoadNoReturn(ts) == "dispatch"

\* Lines 220-222 / 226-228: main returns when there is no target.
AfterLoad(ts) == IF ts = <<>> THEN "done" ELSE "dispatch"

\* Lines 215-242: the configuration, the targets, the early return, the
\* tasks and the empty results list.
Start ==
  /\ pc = "start"
  /\ cfg' = ConfigLoad(launch[1].argv, launch[1].env)
  /\ targets' = LoadTargets(launch[1].argv, launch[1].fileExists, launch[1].lines)
  /\ launch' = None
  /\ pc' = AfterLoad(targets')
  /\ exitStatus' = IF pc' = "done" THEN Some(0) ELSE exitStatus
  /\ tk' = [i \in 1..Len(targets') |-> Queued]
  /\ UNCHANGED <<results, agg, aggLog, tally, clock, clockEnd, osFaults>>

\* ---------------------------------------------------------- main: dispatch
\* Mutant of Script: the two tool paths are swapped in cfg.agents.
ScriptSwapped(agent) ==
  CASE agent = "username" -> "spiderfoot_agent.py"
    [] agent = "spiderfoot" -> "username_agent.py"
    [] OTHER -> "summary_agent.py"

\* Lines 84-88: cfg.agents, the script of each tool family.
Script(agent) ==
  CASE agent = "username" -> "username_agent.py"
    [] agent = "spiderfoot" -> "spiderfoot_agent.py"
    [] OTHER -> "summary_agent.py"

\* dispatch_task(kind, value) up to its first call of sh, or to its return
\* when it makes none.
Begun(kind, value, max_retries, now1, now2) ==
  LET t0 == dispatch_enter(kind, value, now1, now2)
      fr == execute_agent_enter(max_retries)
  IN  IF Route(kind) = "unknown" THEN TaskState("done", Some(t0), NoFrame, <<>>)
      ELSE IF fr.at = "raised"
      THEN TaskState("done", Some(run_finish(t0, fr, now2)), fr, <<>>)
      ELSE TaskState("running", Some(t0), fr, <<>>)

\* The values two successive datetime.now() calls can return.
Reads == { r \in (clock..clockEnd) \X (clock..clockEnd) : r[1] <= r[2] }

\* The clock value last read once a task went from s to its next state new
\* with the reads r: the second read is made when the record is finished.
LastRead(new, r) == IF new.st = "done" THEN r[2] ELSE r[1]

\* One iteration of execute_agent inside a runner: sh is called, and the
\* runner returns its record when the activation is over.
Stepped(s, agent, value, proc, max_retries, now) ==
  LET out == sh(proc, ExecTimeout)
      new == execute_agent_attempt(s.fr, out, max_retries)
      log == s.log \o AttemptEvents(s.fr, new, Script(agent), <<value>>, proc, out)
  IN  IF new.at \in {"returned", "raised"}
      THEN TaskState("done", Some(run_finish(s.t[1], new, now)), new, log)
      ELSE TaskState("running", s.t, new, log)

\* Lines 261-265: fut.result(), or the record made of what it raised.  A
\* future holds what dispatch_task returned: dispatch_task raises nothing.
Future(s) == [raised |-> FALSE, res |-> s.t, exc |-> None]
collected(fut, k, v, now1, now2) ==
  IF fut.raised THEN future_raised_result(k, v, fut.exc[1], now1, now2) ELSE fut.res[1]

Sequential == pc = "dispatch" /\ ~cfg.parallel

\* Mutant of results_append: a record for a target already present is
\* dropped (results keyed by target).
results_append_by_target(rs, res) ==
  IF \E k \in 1..Len(rs) : rs[k].target = res.target THEN rs ELSE Append(rs, res)

\* Mutants of results_append: the record is put in front; the record
\* overwrites the last one.
results_append_front(rs, res) == <<res>> \o rs
results_append_overwrite(rs, res) ==
  IF rs = <<>> THEN <<res>> ELSE [rs EXCEPT ![Len(rs)] = res]

\* Lines 266 / 269: results.append(res).
results_append(rs, res) == Append(rs, res)

\* Line 268: the for loop calls dispatch_task for the next task.
SeqBegin ==
  /\ Sequential
  /\ LET i == Len(results) + 1
     IN  /\ tk[i].st = "queued"
         /\ \E r \in Reads :
              /\ tk' = [tk EXCEPT ![i] = Begun(targets[i][1], targets[i][2],
                                               cfg.max_retries, r[1], r[2])]
              /\ clock' = LastRead(tk'[i], r)
  /\ UNCHANGED <<launch, pc, cfg, targets, results, agg, aggLog, tally, exitStatus,
                 clockEnd, osFaults>>

\* Line 269: dispatch_task returned and its record is appended; the loop
\* ends after the last task.
SeqAppend ==
  /\ Sequential
  /\ LET i == Len(results) + 1
     IN  /\ tk[i].st = "done"
         /\ tk' = [tk EXCEPT ![i] = Collected]
         /\ results' = results_append(results, tk[i].t[1])
         /\ pc' = IF i = Len(targets) THEN "aggregate" ELSE pc
  /\ UNCHANGED <<launch, cfg, targets, agg, aggLog, tally, exitStatus, clock, clockEnd,
                 osFaults>>

\* ThreadPoolExecutor(max_workers): ValueError for max_workers <= 0.
PoolMade(worker_count) == IF worker_count <= 0 THEN "crashed" ELSE "pool"

\* Lines 255-258: the pool is made and every task is submitted; nothing
\* catches the ValueError.
PoolEnter ==
  /\ pc = "dispatch"
  /\ cfg.parallel
  /\ pc' = PoolMade(cfg.worker_count)
  /\ exitStatus' = IF pc' = "crashed" THEN Some(1) ELSE exitStatus
  /\ UNCHANGED <<launch, cfg, targets, tk, results, agg, aggLog, tally, clock, clockEnd,
                 osFaults>>

Running == { i \in 1..Len(tk) : tk[i].st = "running" }

\* Mutant of WorkerFree: the pool starts a thread for every task.
WorkerFreeAlways(worker_count) == TRUE

\* Mutant of WorkerFree: the pool never gives a task to a thread.
WorkerFreeNever(worker_count) == FALSE

\* A worker thread is free for another task.
WorkerFree(worker_count) == Cardinality(Running) < worker_count

\* A free worker thread takes the oldest queued task.
WorkerStart(i) ==
  /\ pc = "pool"
  /\ tk[i].st = "queued"
  /\ \A j \in 1..(i - 1) : tk[j].st # "queued"
  /\ WorkerFree(cfg.worker_count)
  /\ \E r \in Reads :
       /\ tk' = [tk EXCEPT ![i] = Begun(targets[i][1], targets[i][2],
                                        cfg.max_retries, r[1], r[2])]
       /\ clock' = LastRead(tk'[i], r)
  /\ UNCHANGED <<launch, pc, cfg, targets, results, agg, aggLog, tally, exitStatus,
                 clockEnd, osFaults>>

\* A running task calls sh.
TaskStep(i) ==
  /\ pc \in {"dispatch", "pool"}
  /\ tk[i].st = "running"
  /\ tk[i].fr.at = "call"
  /\ \E proc \in Procs(tk[i].t[1].agent, osFaults), now \in clock..clockEnd :
       /\ tk' = [tk EXCEPT ![i] = Stepped(tk[i], tk[i].t[1].agent, targets[i][2], proc,
                                          cfg.max_retries, now)]
       /\ clock' = IF tk'[i].st = "done" THEN now ELSE clock
  /\ UNCHANGED <<launch, pc, cfg, targets, results, agg, aggLog, tally, exitStatus,
                 clockEnd, osFaults>>

\* A running task's backoff sleep ends.
TaskWake(i) ==
  /\ pc \in {"dispatch", "pool"}
  /\ tk[i].st = "running"
  /\ tk[i].fr.at = "sleep"
  /\ tk' = [tk EXCEPT ![i].fr = execute_agent_wake(tk[i].fr)]
  /\ UNCHANGED <<launch, pc, cfg, targets, results, agg, aggLog, tally, exitStatus,
                 clock, clockEnd, osFaults>>

\* Mutant of PoolDone: the loop over as_completed is left after the first
\* future.
PoolDoneFirst(states) == \E j \in 1..Len(states) : states[j].st = "collected"

\* Lines 257-259: as_completed has yielded every future of future_map, and
\* the with block is left once every worker is idle.
PoolDone(states) == \A j \in 1..Len(states) : states[j].st = "collected"

\* Lines 259-266: as_completed yields a finished future and main appends its
\* record; after the last one the with block is left.
Collect(i) ==
  /\ pc = "pool"
  /\ tk[i].st = "done"
  /\ tk' = [tk EXCEPT ![i] = Collected]
  /\ \E r \in Reads :
       /\ results' = results_append(results,
                                   collected(Future(tk[i]), targets[i][1], targets[i][2],
                                             r[1], r[2]))
       /\ clock' = IF Future(tk[i]).raised THEN r[2] ELSE clock
  /\ pc' = IF PoolDone(tk') THEN "aggregate" ELSE pc
  /\ UNCHANGED <<launch, cfg, targets, agg, aggLog, tally, exitStatus, clockEnd,
                 osFaults>>

\* --------------------------------------------------- main: summary, tally
\* Mutant of AfterAgg: what execute_agent raises is not caught.
AfterAggUncaught(fr) ==
  IF fr.at = "returned" THEN "summarize"
  ELSE IF fr.at = "raised" THEN "crashed" ELSE "aggregate"

\* Lines 273-280: the summary agent runs under execute_agent; what it
\* raises is logged, and main goes on.
AfterAgg(fr) == IF fr.at \in {"returned", "raised"} THEN "summarize" ELSE "aggregate"

AggEnter ==
  /\ pc = "aggregate"
  /\ agg.at = "none"
  /\ agg' = execute_agent_enter(cfg.max_retries)
  /\ pc' = AfterAgg(agg')
  /\ UNCHANGED <<launch, cfg, targets, tk, results, aggLog, tally, exitStatus, clock, clockEnd,
                 osFaults>>

AggStep ==
  /\ pc = "aggregate"
  /\ agg.at = "call"
  /\ \E proc \in Procs("summary", osFaults) :
       LET out == sh(proc, ExecTimeout)
       IN  /\ agg' = execute_agent_attempt(agg, out, cfg.max_retries)
           /\ aggLog' = aggLog \o AttemptEvents(agg, agg', Script("summary"), <<>>, proc, out)
  /\ pc' = AfterAgg(agg')
  /\ UNCHANGED <<launch, cfg, targets, tk, results, tally, exitStatus, clock, clockEnd,
                 osFaults>>

AggWake ==
  /\ pc = "aggregate"
  /\ agg.at = "sleep"
  /\ agg' = execute_agent_wake(agg)
  /\ UNCHANGED <<launch, pc, cfg, targets, tk, results, aggLog, tally, exitStatus,
                 clock, clockEnd, osFaults>>

\* Mutant of CountCompleted: every record is counted.
CountAll(rs) == Len(rs)

\* Line 283: success_count.
RECURSIVE CountCompleted(_)
CountCompleted(rs) ==
  IF rs = <<>> THEN 0
  ELSE (IF Head(rs).status = "completed" THEN 1 ELSE 0) + CountCompleted(Tail(rs))

\* Lines 283-285: the tally is logged and main returns.
Summarize ==
  /\ pc = "summarize"
  /\ tally' = Some(<<CountCompleted(results), Len(results)>>)
  /\ pc' = "done"
  /\ exitStatus' = Some(0)
  /\ UNCHANGED <<launch, cfg, targets, tk, results, agg, aggLog, clock, clockEnd,
                 osFaults>>

Next ==
  \/ Start
  \/ SeqBegin
  \/ SeqAppend
  \/ PoolEnter
  \/ \E i \in 1..Len(tk) : WorkerStart(i)
  \/ \E i \in 1..Len(tk) : TaskStep(i)
  \/ \E i \in 1..Len(tk) : TaskWake(i)
  \/ \E i \in 1..Len(tk) : Collect(i)
  \/ AggEnter
  \/ AggStep
  \/ AggWake
  \/ Summarize

Spec == Init /\ [][Next]_vars

\* ---------------------------------------------- the two-target scenario
\* Runs whose input lines are "email: a@b.com" and "username: alice".
ScenarioLines ==
  { <<"email", ":", " ", "a", "@", "b", ".", "c", "o", "m">>,
    <<"username", ":", " ", "a", "l", "i", "c", "e">> }

ScenarioLaunches ==
  [ argv : Argvs, env : EnvRetries, fileExists : BOOLEAN,
    lines : SeqsUpTo(ScenarioLines, MaxLines) ]

InitScenario ==
  /\ launch \in { Some(l) : l \in ScenarioLaunches }
  /\ InitMain
  /\ clockEnd = 0
  /\ osFaults = LaunchFaults

SpecScenario == InitScenario /\ [][Next]_vars

\* ------------------------------------------------- runs that take time
\* Runs during which the wall clock goes from 0 up to MaxClock.
TimeLines == { <<"username", ":", " ", "a">>, <<"pigeon", ":", "a">> }

TimeLaunches ==
  [ argv : { <<"mother_agent.py">>, <<"mother_agent.py", "-p", "--workers", "2">> },
    env : { Some(0), Some(2) }, fileExists : { TRUE },
    lines : SeqsUpTo(TimeLines, MaxLines) ]

InitTime ==
  /\ launch \in { Some(l) : l \in TimeLaunches }
  /\ InitMain
  /\ clockEnd = MaxClock
  /\ osFaults = LaunchFaults

SpecTime == InitTime /\ [][Next]_vars

\* ------------------------------- runs on a machine with two launch faults
\* Runs on username targets where a launch can end in either of two faults.
RetryLines == { <<"username", ":", " ", "a">> }

RetryLaunches ==
  [ argv : { <<"mother_agent.py">>,
             <<"mother_agent.py", "-p", "--workers", "2">>,
             <<"mother_agent.py", "-p", "--workers", "0">> },
    env : EnvRetries, fileExists : { TRUE },
    lines : SeqsUpTo(RetryLines, MaxLines) ]

InitRetry ==
  /\ launch \in { Some(l) : l \in RetryLaunches }
  /\ InitMain
  /\ clockEnd = 0
  /\ osFaults = RetryFaults

SpecRetry == InitRetry /\ [][Next]_vars

\* The same launches, with the one launch fault, where nothing hangs: every
\* launched child process ends
\* (subprocess.run returns or raises), every time.sleep ends, and the main
\* thread and the pool's threads are scheduled while they have a step to
\* take.
InitLive ==
  /\ launch \in { Some(l) : l \in RetryLaunches }
  /\ InitMain
  /\ clockEnd = 0
  /\ osFaults = LaunchFaults

InvocationsEnd == (\E i \in 1..Len(tk) : TaskStep(i)) \/ AggStep
SleepsEnd == (\E i \in 1..Len(tk) : TaskWake(i)) \/ AggWake
ThreadsRun ==
  \/ Start
  \/ SeqBegin
  \/ SeqAppend
  \/ PoolEnter
  \/ \E i \in 1..Len(tk) : WorkerStart(i)
  \/ \E i \in 1..Len(tk) : Collect(i)
  \/ AggEnter
  \/ Summarize

Fairness == WF_vars(InvocationsEnd) /\ WF_vars(SleepsEnd) /\ WF_vars(ThreadsRun)

SpecLive == InitLive /\ [][Next]_vars /\ Fairness

\* -------------------------------------------- loading one guessed target
\* main's loading step on one line typed at the prompt without a colon, so
\* that its kind is guess_kind's: up to MaxRawLen characters, then nothing,
\* six digits, or a dot and five digits.
RawAlphabet == { "a", "1", "@", ".", " ", "\t", "+" }

RawTails ==
  { <<>>,
    <<"1", "1", "1", "1", "1", "1">>,
    <<".", "1", "1", "1", "1", "1">> }

RawInputs == { h \o t : h \in SeqsUpTo(RawAlphabet, MaxRawLen), t \in RawTails }

ClassifyLaunches ==
  [ argv : { <<"mother_agent.py", "--prompt">> },
    env : { None }, fileExists : BOOLEAN,
    lines : { <<raw>> : raw \in RawInputs } ]

InitClassify ==
  /\ launch \in { Some(l) : l \in ClassifyLaunches }
  /\ InitMain
  /\ clockEnd = 0
  /\ osFaults = LaunchFaults

SpecClassify == InitClassify /\ [][Start]_vars

\* ================================================================ claims
Tasks == 1..Len(tk)
Calls(log) == SelectSeq(log, LAMBDA e : e.ev = "call")
Sleeps(log) == SelectSeq(log, LAMBDA e : e.ev = "sleep")
AllRaised(log) == \A k \in 1..Len(log) : log[k].ev = "call" => log[k].out[1].raised
SupportedKinds == { <<"username">>, <<"domain">>, <<"email">>, <<"ip">>, <<"phone">> }
Terminal(r) == r.status \in {"completed", "failed"}
DispatchOver == pc \in {"aggregate", "summarize", "done"}

\* C1: when dispatch is over the results list holds exactly one TaskResult
\* per input target, in the sequential and in the parallel mode, for any
\* targets (duplicates, unsupported kinds, tasks whose every attempt raises);
\* until then it holds one per task that is over.
C1_OneResultPerTarget ==
  /\ Len(results) = Cardinality({ i \in Tasks : tk[i].st = "collected" })
  /\ DispatchOver => Len(results) = Len(targets)

\* C1 witness: a parallel run over two equal targets is through dispatch, and
\* one of the two records is that of a task whose every attempt raised.
C1_Witness ==
  /\ pc = "aggregate"
  /\ cfg.parallel
  /\ Len(targets) = 2
  /\ targets[1] = targets[2]
  /\ Len(results) = 2
  /\ \E k \in 1..2 : results[k].error \in { Some(str(f)) : f \in LaunchFaults }

\* C2: a task whose every invocation raised a launch fault made exactly
\* max_retries invocations, slept exactly max_retries - 1 times, after failed
\* attempt k for 2^(k-1), and its TaskResult is failed with the fault's text
\* as error.
C2_ExhaustedRetries ==
  \A i \in Tasks :
    (tk[i].st = "done" /\ tk[i].log # <<>> /\ AllRaised(tk[i].log)) =>
      LET log == tk[i].log
          t == tk[i].t[1]
      IN  /\ Len(Calls(log)) = cfg.max_retries
          /\ Len(Sleeps(log)) = cfg.max_retries - 1
          /\ \A k \in 1..Len(log) : log[k].ev = (IF k % 2 = 1 THEN "call" ELSE "sleep")
          /\ \A k \in 1..Len(Sleeps(log)) : Sleeps(log)[k].delay = 2 ^ (k - 1)
          /\ t.status = "failed"
          /\ t.error = Some(log[Len(log)].out[1].exc[1].msg)
          /\ t.returncode = None

\* C2 witness: a task is over after three raised attempts and sleeps of 1
\* and 2.
C2_Witness ==
  \E i \in Tasks :
    /\ tk[i].st = "done"
    /\ cfg.max_retries = 3
    /\ AllRaised(tk[i].log)
    /\ Len(Calls(tk[i].log)) = 3
    /\ Sleeps(tk[i].log)[2].delay = 2

\* C3: in the parallel mode, a step of one task changes no other task, never
\* ends the pool and never touches the records already collected; a task
\* that ends on a raised fault ends with a failed record carrying the fault's
\* message, a task that ends on a returned process with that process's exit
\* code, and the record collected for a task is the one that task ended with.
C3_Step ==
  (pc = "pool") =>
    /\ pc' \in {"pool", "aggregate"}
    /\ \A i \in Tasks : tk'[i] # tk[i] => \A j \in Tasks \ {i} : tk'[j] = tk[j]
    /\ SubSeq(results', 1, Len(results)) = results
    /\ \A i \in Tasks :
         (tk[i].st = "running" /\ tk'[i].st = "done") =>
           LET out == tk'[i].log[Len(tk'[i].log)].out[1]
               t == tk'[i].t[1]
           IN  /\ results' = results
               /\ out.raised =>
                    t.status = "failed" /\ t.error = Some(out.exc[1].msg)
               /\ ~out.raised => t.returncode = out.returncode
    /\ \A i \in Tasks :
         (tk[i].st = "done" /\ tk'[i].st = "collected") =>
           results' = Append(results, tk[i].t[1])

C3_FaultIsolation == [][C3_Step]_vars

\* C3 witness: in the pool, one task has ended failed on a raised fault and
\* a sibling has ended completed.
C3_Witness ==
  /\ pc = "pool"
  /\ \E i, j \in Tasks :
       /\ i # j
       /\ tk[i].st = "done"
       /\ tk[i].t[1].status = "failed"
       /\ tk[i].log # <<>>
       /\ AllRaised(tk[i].log)
       /\ tk[j].st = "done"
       /\ tk[j].t[1].status = "completed"

\* C4: every TaskResult in the results list has a terminal status; none is
\* pending or running, in either mode.
C4_TerminalResults == \A k \in 1..Len(results) : Terminal(results[k])

\* C4 witness: the results of a parallel run hold a completed record and a
\* record failed on a raised fault.
C4_Witness ==
  /\ cfg.parallel
  /\ \E k \in 1..Len(results) : results[k].status = "completed"
  /\ \E k \in 1..Len(results) :
       results[k].status = "failed" /\ results[k].returncode = None
       /\ results[k].agent # "unknown"

\* C5: an invocation whose tool timed out does not raise: it returns exit
\* code 124, no attempt and no sleep follow it, and the task is failed with
\* error "exit 124".
C5_TimeoutIsExit124 ==
  \A i \in Tasks : \A k \in 1..Len(tk[i].log) :
    LET e == tk[i].log[k]
    IN  (e.ev = "call" /\ e.proc[1].launch = None /\ e.proc[1].slow) =>
          /\ ~e.out[1].raised
          /\ e.out[1].returncode = Some(124)
          /\ k = Len(tk[i].log)
          /\ tk[i].st = "done"
          /\ tk[i].t[1].status = "failed"
          /\ tk[i].t[1].returncode = Some(124)
          /\ tk[i].t[1].error = Some(<<"exit ", "124">>)

\* C5 witness: a spiderfoot task that had attempts left is over on a
\* timed-out tool.
C5_Witness ==
  \E i \in Tasks :
    /\ tk[i].st = "done"
    /\ tk[i].t[1].agent = "spiderfoot"
    /\ cfg.max_retries >= 2
    /\ Len(tk[i].log) = 1
    /\ tk[i].log[1].proc[1].slow

\* C6: a target whose kind is none of username, domain, email, ip, phone
\* never runs: it launches no process, makes no attempt and no sleep, and it
\* ends with a failed record of agent "unknown" and error "unknown type
\* <kind>"; in the sequential mode that record is the one at its place in the
\* results.
C6_UnknownKind ==
  \A i \in Tasks :
    (targets[i][1] \notin SupportedKinds) =>
      /\ tk[i].st \in {"queued", "done", "collected"}
      /\ tk[i].log = <<>>
      /\ tk[i].fr.at = "none"
      /\ tk[i].st = "done" =>
           /\ tk[i].t[1].target = targets[i][2]
           /\ tk[i].t[1].agent = "unknown"
           /\ tk[i].t[1].status = "failed"
           /\ tk[i].t[1].returncode = None
           /\ tk[i].t[1].error = Some(<<"unknown type ">> \o targets[i][1])
      /\ (~cfg.parallel /\ i <= Len(results)) =>
           /\ results[i].agent = "unknown"
           /\ results[i].status = "failed"
           /\ results[i].error = Some(<<"unknown type ">> \o targets[i][1])

\* C6 witness: the task of a pigeon target is over, with max_retries >= 2.
C6_Witness ==
  \E i \in Tasks :
    /\ targets[i][1] = <<"pigeon">>
    /\ tk[i].st = "done"
    /\ cfg.max_retries >= 2
    /\ tk[i].t[1].error = Some(<<"unknown type ", "pigeon">>)

\* C7: once the summary agent has been entered or launched, the results
\* list holds a terminal TaskResult for every target and no task is queued
\* or running, in either mode.
C7_AggregateAfterAll ==
  (agg.at # "none" \/ aggLog # <<>>) =>
    /\ Len(results) = Len(targets)
    /\ \A k \in 1..Len(results) : Terminal(results[k])
    /\ \A i \in Tasks : tk[i].st = "collected"

\* C7 witness: the summary agent has been launched after a parallel run of
\* two tasks that both launched processes.
C7_Witness ==
  /\ cfg.parallel
  /\ Len(targets) = 2
  /\ \A k \in 1..Len(results) : results[k].returncode # None
  /\ Len(aggLog) >= 1

\* C8: a supported task's record is completed exactly when the invocation
\* that ended its retry loop returned exit code 0; else it is failed, with
\* error "exit <code>" when that invocation returned a non-zero code and the
\* raised fault's string otherwise.
C8_StatusFromFinalExit ==
  \A i \in Tasks :
    (tk[i].st = "done" /\ targets[i][1] \in SupportedKinds) =>
      LET t == tk[i].t[1]
          log == tk[i].log
          out == log[Len(log)].out[1]
      IN  /\ Terminal(t)
          /\ t.status = "completed" <=>
               (log # <<>> /\ ~out.raised /\ out.returncode = Some(0))
          /\ t.status = "completed" => t.error = None /\ t.returncode = Some(0)
          /\ (log # <<>> /\ ~out.raised /\ out.returncode # Some(0)) =>
               /\ t.returncode = out.returncode
               /\ t.error = Some(<<"exit ", IntToStr(out.returncode[1])>>)
          /\ (log # <<>> /\ out.raised) =>
               t.returncode = None /\ t.error = Some(out.exc[1].msg)
          /\ log = <<>> =>
               t.returncode = None /\ t.error = Some(<<"Unknown execution failure">>)

\* C8 witness: a task is over, completed, on an exit code 0 that followed a
\* raised attempt.
C8_Witness ==
  \E i \in Tasks :
    /\ tk[i].st = "done"
    /\ tk[i].t[1].status = "completed"
    /\ Len(Calls(tk[i].log)) = 2

\* C9: an invocation that returned, with a non-zero code as with zero, is
\* the last thing its retry loop did, whatever max_retries is; a sleep only
\* follows an attempt that raised.
ReturnEndsLoop(log, over) ==
  /\ \A k \in 1..Len(log) :
       (log[k].ev = "call" /\ ~log[k].out[1].raised) => k = Len(log) /\ over
  /\ \A k \in 1..Len(log) :
       log[k].ev = "sleep" =>
         k > 1 /\ log[k - 1].ev = "call" /\ log[k - 1].out[1].raised

C9_NoRetryOnExit ==
  /\ \A i \in Tasks : ReturnEndsLoop(tk[i].log, tk[i].st = "done")
  /\ ReturnEndsLoop(aggLog, pc \in {"summarize", "done"})

\* C9 witness: with max_retries = 3 a task is over after one invocation that
\* returned a non-zero code.
C9_Witness ==
  \E i \in Tasks :
    /\ cfg.max_retries = 3
    /\ tk[i].st = "done"
    /\ Len(tk[i].log) = 1
    /\ tk[i].log[1].out[1].returncode = Some(1)

\* C10: when loading gave no target the run is over: no task exists, nothing
\* was dispatched, the summary agent was neither entered nor launched, and
\* no tally is made.
C10_NoTargetsNoWork ==
  (pc # "start" /\ targets = <<>>) =>
    /\ pc = "done"
    /\ exitStatus = Some(0)
    /\ tk = <<>>
    /\ results = <<>>
    /\ agg = NoFrame
    /\ aggLog = <<>>
    /\ tally = None

\* C10 witness: a run started with --parallel has loaded no target and is
\* over.
C10_Witness == pc = "done" /\ targets = <<>> /\ cfg.parallel /\ launch = None

\* The agent and the target text of the record of a (kind, value) pair.
ExpectedAgent(kind) ==
  IF kind = <<"username">> THEN "username"
  ELSE IF kind \in SupportedKinds THEN "spiderfoot" ELSE "unknown"
ExpectedTarget(kind, value) ==
  IF kind \in SupportedKinds \ { <<"username">> } THEN kind \o <<":">> \o value
  ELSE value
CompletedCount == Cardinality({ k \in 1..Len(results) : results[k].status = "completed" })

\* C11: while the summary agent runs and after it, the results list and the
\* tasks do not change; when its execute_agent activation raises or returns
\* (with any exit code) main goes on to the tally, and the tally made is the
\* number of completed records over the number of targets.
C11_Step ==
  /\ (pc \in {"aggregate", "summarize"}) =>
       /\ results' = results
       /\ tk' = tk
       /\ pc' \in {"aggregate", "summarize", "done"}
  /\ (pc = "aggregate" /\ agg'.at \in {"raised", "returned"}) => pc' = "summarize"
  /\ (pc = "summarize") =>
       /\ pc' = "done"
       /\ tally' = Some(<<CompletedCount, Len(targets)>>)
       /\ exitStatus' = Some(0)

C11_AggregateFailureHarmless == [][C11_Step]_vars

\* C11 witness: a run is over with the tally 1/2 after every attempt of the
\* summary agent raised.
C11_Witness ==
  /\ pc = "done"
  /\ agg.at = "raised"
  /\ Len(Calls(aggLog)) >= 2
  /\ tally = Some(<<1, 2>>)

\* C12: in the sequential mode at most one task is between its start and
\* its record's append; every task before it is over and collected, every
\* task after it has not started (no invocation, no sleep); and the k-th
\* record is the record of the k-th target.
C12_SequentialOrder ==
  (~cfg.parallel /\ pc # "start") =>
    /\ \A i \in Tasks :
         tk[i].st # "queued" => \A j \in 1..(i - 1) : tk[j].st = "collected"
    /\ \A i \in Tasks :
         tk[i].st # "collected" =>
           \A j \in (i + 1)..Len(tk) : tk[j].st = "queued" /\ tk[j].log = <<>>
    /\ Len(results) <= Len(targets)
    /\ \A k \in 1..Len(results) :
         /\ results[k].agent = ExpectedAgent(targets[k][1])
         /\ results[k].target = ExpectedTarget(targets[k][1], targets[k][2])

\* C12 witness: in a sequential run over two different targets the first
\* record is appended and the second task sleeps between two attempts.
C12_Witness ==
  /\ ~cfg.parallel
  /\ Len(targets) = 2
  /\ targets[1] # targets[2]
  /\ Len(results) = 1
  /\ tk[2].st = "running"
  /\ tk[2].fr.at = "sleep"

\* C13: in the pool never more than worker_count tasks are between their
\* start and their record; while there is a queued task and fewer running
\* tasks than workers, a task can start, and every running task can go on
\* (make its call, end its sleep) whatever the other tasks are doing.
C13_BoundedWorkers ==
  (pc = "pool") =>
    /\ Cardinality({ i \in Tasks : tk[i].st = "running" }) <= cfg.worker_count
    /\ ( /\ \E i \in Tasks : tk[i].st = "queued"
         /\ Cardinality({ i \in Tasks : tk[i].st = "running" }) < cfg.worker_count )
       => ENABLED (\E i \in Tasks : WorkerStart(i))
    /\ \A i \in Tasks :
         (tk[i].st = "running" /\ tk[i].fr.at = "call") => ENABLED TaskStep(i)
    /\ \A i \in Tasks :
         (tk[i].st = "running" /\ tk[i].fr.at = "sleep") => ENABLED TaskWake(i)

\* C13 witness: with two workers, the first task is in its backoff sleep
\* and the second task has made a launch and is over.
C13_Witness ==
  /\ pc = "pool"
  /\ cfg.worker_count = 2
  /\ Len(tk) = 2
  /\ tk[1].st = "running"
  /\ tk[1].fr.at = "sleep"
  /\ tk[2].st = "done"
  /\ tk[2].log # <<>>

\* C14: a run that loaded a target never crashes: when it ends, it ends
\* with exit status 0 and with the tally made.
C14_AlwaysExitZero ==
  /\ pc # "crashed"
  /\ (exitStatus # None /\ targets # <<>>) => exitStatus = Some(0) /\ tally # None

\* C15: every process a task launches is the script of its kind's tool
\* family (username: username_agent.py; domain, email, ip, phone:
\* spiderfoot_agent.py) with the target's value as its only argument, and the
\* task's record names that family as agent.
C15_Routing ==
  \A i \in Tasks :
    (targets[i][1] \in SupportedKinds) =>
      /\ \A k \in 1..Len(tk[i].log) :
           tk[i].log[k].ev = "call" =>
             /\ tk[i].log[k].script =
                  (IF targets[i][1] = <<"username">> THEN "username_agent.py"
                   ELSE "spiderfoot_agent.py")
             /\ tk[i].log[k].args = <<targets[i][2]>>
      /\ tk[i].t # None =>
           tk[i].t[1].agent =
             (IF targets[i][1] = <<"username">> THEN "username" ELSE "spiderfoot")

\* C15 witness: a domain task is over after a launch of spiderfoot_agent.py
\* with the domain as its argument.
C15_Witness ==
  \E i \in Tasks :
    /\ targets[i] = << <<"domain">>, <<"a", ".", "a">> >>
    /\ tk[i].st = "done"
    /\ tk[i].log # <<>>
    /\ tk[i].log[1].script = "spiderfoot_agent.py"
    /\ tk[i].log[1].args = << <<"a", ".", "a">> >>

\* C18: the results list only grows, by one record at a time, at its end:
\* a step that changes it moves exactly one finished task to collected and
\* appends that task's record, a collected task stays collected, a finished
\* task leaves that state only by being collected; and the tally is made
\* only when every task is collected.
C18_Step ==
  /\ results' # results =>
       \E i \in Tasks :
         /\ tk[i].st = "done"
         /\ tk'[i].st = "collected"
         /\ \A j \in Tasks \ {i} : tk'[j] = tk[j]
         /\ results' = results \o <<tk[i].t[1]>>
  /\ \A i \in Tasks : tk[i].st = "collected" => tk'[i].st = "collected"
  /\ \A i \in Tasks :
       (tk[i].st = "done" /\ tk'[i].st # "done") =>
         tk'[i].st = "collected" /\ Len(results') = Len(results) + 1
  /\ tally' # tally =>
       /\ \A i \in Tasks : tk[i].st = "collected"
       /\ Len(results) = Len(targets)

C18_AppendOnly == [][C18_Step]_vars

\* C18 witness: in a pool of two workers one record is collected while
\* another finished task waits to be collected.
C18_Witness ==
  /\ pc = "pool"
  /\ cfg.worker_count >= 2
  /\ Len(results) = 1
  /\ \E i \in Tasks : tk[i].st = "done" /\ tk[i].log # <<>>

\* C20: a task whose retry loop ended on a returned invocation, the j-th,
\* made exactly j invocations (j <= max_retries), the j - 1 before it all
\* raised, each followed by one sleep of 2^(k-1) after the k-th, none after
\* the last; its record carries the j-th invocation's exit code; with j = 1
\* and exit code 0 there is one launch, no sleep, and status completed.
C20_RetryThenReturn ==
  \A i \in Tasks :
    ( /\ tk[i].st = "done"
      /\ tk[i].log # <<>>
      /\ ~tk[i].log[Len(tk[i].log)].out[1].raised ) =>
      LET log == tk[i].log
          j == Len(Calls(log))
          t == tk[i].t[1]
      IN  /\ j >= 1 /\ j <= cfg.max_retries
          /\ Len(log) = 2 * j - 1
          /\ \A k \in 1..Len(log) : log[k].ev = (IF k % 2 = 1 THEN "call" ELSE "sleep")
          /\ \A m \in 1..(j - 1) :
               log[2 * m - 1].out[1].raised /\ log[2 * m].delay = 2 ^ (m - 1)
          /\ t.returncode = log[Len(log)].out[1].returncode
          /\ (j = 1 /\ t.returncode = Some(0)) => t.status = "completed"

\* C20 witness: a task is over, completed, on its third invocation, after
\* sleeps of 1 and 2.
C20_Witness ==
  \E i \in Tasks :
    /\ tk[i].st = "done"
    /\ tk[i].t[1].status = "completed"
    /\ Len(tk[i].log) = 5
    /\ tk[i].log[2].delay = 1
    /\ tk[i].log[4].delay = 2

\* The targets of the scenario: (email, a@b.com), (username, alice).
ScenarioTargets ==
  << << <<"email">>, <<"a", "@", "b", ".", "c", "o", "m">> >>,
     << <<"username">>, <<"a", "l", "i", "c", "e">> >> >>

\* C16: the tally is the number of completed records over the number of
\* targets; and in the scenario, when both tools exited 0, the results are
\* the two completed records of the two targets and the tally is 2/2.
C16_Tally ==
  (tally # None) =>
    /\ Len(results) = Len(targets)
    /\ tally = Some(<<CompletedCount, Len(targets)>>)
    /\ ( /\ targets = ScenarioTargets
         /\ \A k \in 1..Len(results) : results[k].returncode = Some(0) )
       => /\ \A k \in 1..Len(results) :
               results[k].status = "completed" /\ results[k].error = None
          /\ { results[k].target : k \in 1..Len(results) } =
               { <<"email">> \o <<":">> \o ScenarioTargets[1][2], ScenarioTargets[2][2] }
          /\ { results[k].agent : k \in 1..Len(results) } = {"spiderfoot", "username"}
          /\ tally = Some(<<2, 2>>)

\* C16 witness: the scenario's run is over with one attempt allowed per
\* task (max_retries = 1), both records completed, and the tally 2/2.
C16_Witness ==
  /\ pc = "done"
  /\ targets = ScenarioTargets
  /\ cfg.max_retries = 1
  /\ \A k \in 1..Len(results) : results[k].status = "completed"
  /\ tally = Some(<<2, 2>>)

\* A record has its start_time; it has its end_time, not before its
\* start_time, exactly when it is no longer the record of a running task.
Stamped(t, over) ==
  /\ t.start_time # None
  /\ (t.end_time # None) <=> over
  /\ over => t.end_time[1] >= t.start_time[1]

C17_Stamped ==
  /\ \A i \in Tasks : tk[i].t # None => Stamped(tk[i].t[1], tk[i].st = "done")
  /\ \A k \in 1..Len(results) : Stamped(results[k], TRUE)

\* C17: every record has its start_time from the step that makes it, read
\* from the clock at that step and before any launch of the task; it gets
\* its end_time at the step that ends the task (the retry loop returned or
\* raised, or the kind has no runner), read from the clock at that step;
\* neither changes afterwards, in the task or in the results list; and
\* end_time >= start_time, the clock never going back.
C17_Step ==
  /\ clock' >= clock
  /\ C17_Stamped'
  /\ \A i \in Tasks :
       /\ (tk[i].st = "queued" /\ tk'[i].st # "queued") =>
            /\ tk[i].log = <<>>
            /\ tk'[i].t[1].start_time[1] \in clock..clock'
            /\ tk'[i].st = "running" => tk'[i].log = <<>>
       /\ (tk[i].st = "running" /\ tk'[i].st = "running") =>
            tk'[i].t = tk[i].t
       /\ (tk[i].st = "running" /\ tk'[i].st = "done") =>
            /\ tk'[i].t[1].start_time = tk[i].t[1].start_time
            /\ tk'[i].t[1].end_time = Some(clock')
            /\ tk'[i].fr.at \in {"returned", "raised"}
       /\ (tk[i].st = "done" /\ tk'[i].st = "done") => tk'[i].t = tk[i].t
       /\ (tk[i].st = "done" /\ tk'[i].st = "collected") =>
            results'[Len(results')] = tk[i].t[1]
  /\ \A k \in 1..Len(results) : results'[k] = results[k]

C17_Timestamps == [][C17_Step]_vars

\* C17 witness: a run is over whose results hold a username record that
\* failed after its retries were exhausted and the record of an unknown
\* kind, each with end_time after start_time.
C17_Witness ==
  /\ pc = "done"
  /\ \E k \in 1..Len(results) :
       /\ results[k].agent = "username"
       /\ results[k].returncode = None
       /\ results[k].end_time[1] > results[k].start_time[1]
  /\ \E k \in 1..Len(results) :
       /\ results[k].agent = "unknown"
       /\ results[k].end_time[1] > results[k].start_time[1]

HasDot(v) == \E k \in 1..Len(v) : v[k] = "."
NoWhitespace(v) == \A k \in 1..Len(v) : ~IsSpace(v[k])
NoSpaceChar(v) == \A k \in 1..Len(v) : v[k] # " "
GuessedKinds == { <<"email">>, <<"phone">>, <<"domain">>, <<"username">> }

RaisedLast(fr, log, max_retries) ==
  LET calls == Calls(log)
  IN  /\ Len(calls) = (IF max_retries >= 1 THEN max_retries ELSE 0)
      /\ AllRaised(log)
      /\ calls # <<>> => /\ log[Len(log)].ev = "call"
                         /\ fr.exc = calls[Len(calls)].out[1].exc
      /\ calls = <<>> => fr.exc = Some(UnknownFailure)
      /\ (fr.exc = Some(UnknownFailure)) <=> (max_retries <= 0)

\* C21: in a task and in the summary step, execute_agent has raised only
\* after max_retries launches that all raised, with the fault of the last
\* launch; with max_retries <= 0 it raises "Unknown execution failure" with
\* no launch made, and the task's record is failed, without a returncode,
\* with that text as error.
C21_RaisesLastFault ==
  /\ \A i \in Tasks :
       (tk[i].st = "done" /\ tk[i].fr.at = "raised") =>
         /\ RaisedLast(tk[i].fr, tk[i].log, cfg.max_retries)
         /\ tk[i].t[1].status = "failed"
         /\ tk[i].t[1].returncode = None
         /\ tk[i].t[1].error = Some(str(tk[i].fr.exc[1]))
         /\ cfg.max_retries <= 0 =>
              /\ tk[i].log = <<>>
              /\ tk[i].t[1].error = Some(<<"Unknown execution failure">>)
  /\ agg.at = "raised" => RaisedLast(agg, aggLog, cfg.max_retries)
  /\ \A i \in Tasks :
       (tk[i].st = "done" /\ tk[i].fr.at = "returned") =>
         ~tk[i].log[Len(tk[i].log)].out[1].raised

\* C21 witness: a task is over after launches that raised different faults,
\* the first "Argument list too long" and the last "Permission denied", and
\* its record's error is the last one's text.
C21_Witness ==
  \E i \in Tasks :
    /\ tk[i].st = "done"
    /\ tk[i].fr.at = "raised"
    /\ Len(Calls(tk[i].log)) >= 2
    /\ tk[i].log[1].out[1].exc[1].msg = <<"Argument list too long">>
    /\ tk[i].t[1].error = Some(<<"Permission denied">>)

\* The launches of the summary agent so far keep to the retry policy: at
\* most max_retries of them, each but the last one raised, and none before
\* the last task's record is in the results list.
AggregatorRetries ==
  LET calls == Calls(aggLog)
  IN  /\ Len(calls) <= (IF cfg.max_retries >= 1 THEN cfg.max_retries ELSE 0)
      /\ \A k \in 1..(Len(calls) - 1) : calls[k].out[1].raised
      /\ \A k \in 1..Len(calls) :
           calls[k].script = "summary_agent.py" /\ calls[k].args = <<>>
      /\ aggLog # <<>> =>
           /\ Len(results) = Len(targets)
           /\ \A i \in Tasks : tk[i].st = "collected"

\* C22: a run that loaded a target with max_retries >= 1 has, when it ends,
\* launched the summary agent at least once; and its launches keep to the
\* retry policy and come after the last task's record.
C22_AggregatorAlwaysRuns ==
  /\ AggregatorRetries
  /\ (exitStatus # None /\ targets # <<>> /\ cfg.max_retries >= 1) =>
       Calls(aggLog) # <<>>

\* C22 where the tasks were dispatched: a run that reached its tally after
\* loading a target with max_retries >= 1 has launched the summary agent at
\* least once, under the retry policy, after the last task's record.
C22_AggregatorAfterDispatch ==
  /\ AggregatorRetries
  /\ (pc = "done" /\ targets # <<>> /\ cfg.max_retries >= 1) => Calls(aggLog) # <<>>

\* C22 witness: a run that loaded a target with max_retries >= 1 is over,
\* with exit status 1, and the summary agent was never launched.
C22_Witness ==
  /\ pc = "crashed"
  /\ exitStatus = Some(1)
  /\ targets # <<>>
  /\ cfg.max_retries >= 1
  /\ aggLog = <<>>
  /\ results = <<>>

\* The launches and sleeps of every task keep within the retry policy's
\* bounds: at most max_retries launches and at most max_retries - 1 sleeps.
BoundedRetries ==
  \A i \in Tasks :
    /\ Len(Calls(tk[i].log)) <= (IF cfg.max_retries >= 1 THEN cfg.max_retries ELSE 0)
    /\ Len(Sleeps(tk[i].log)) <= (IF cfg.max_retries >= 1 THEN cfg.max_retries - 1 ELSE 0)
    /\ tk[i].fr.attempt <= (IF cfg.max_retries >= 1 THEN cfg.max_retries ELSE 0)

\* The tasks of a loaded, non-empty target list are about to be dispatched
\* with a worker count of at least 1, in either mode.
DispatchBegins == pc = "dispatch" /\ targets # <<>> /\ cfg.worker_count >= 1

\* C23: where no launch hangs and every sleep ends, a run with targets and
\* worker_count >= 1 that begins its dispatch goes on to the tally, in the
\* sequential and in the parallel mode; and no task ever makes more than
\* max_retries launches or more than max_retries - 1 sleeps.
C23_ReachesSummarize ==
  /\ []BoundedRetries
  /\ DispatchBegins ~> (pc = "done" /\ tally # None /\ exitStatus = Some(0))

\* C23 witness: a parallel run of two workers over two targets is over,
\* with its tally, after every launch of its tasks and of the summary agent
\* raised, max_retries >= 2 times each.
C23_Witness ==
  /\ pc = "done"
  /\ cfg.parallel
  /\ cfg.worker_count = 2
  /\ cfg.max_retries >= 2
  /\ Len(results) = 2
  /\ \A k \in 1..2 : results[k].status = "failed" /\ results[k].returncode = None
  /\ agg.at = "raised"
  /\ tally = Some(<<0, 2>>)

====
